---- MODULE Spec2Model ----
(***************************************************************************)
(* drugBankParser.py: one sequential pass over a DrugBank XML document.    *)
(* main opens the csv output and writes the header, parseFile parses the   *)
(* input and iterates the children of the root, parseDrug condenses one    *)
(* drug element into {generic_name, brand_names}, and parseFile writes one *)
(* csv row per brand name.                                                 *)
(*                                                                         *)
(* Text is a sequence of one-character strings, so that str.lower() is     *)
(* computed character by character.  An XML element lookup (Element.find)  *)
(* is a record [present, hasText, text]: present = FALSE is find()         *)
(* returning None, hasText = FALSE is an element whose .text is None.      *)
(* The records of the document are supplied by the environment one at a    *)
(* time as the for loop of parseFile fetches them.                         *)
(***************************************************************************)
EXTENDS Naturals, Sequences, FiniteSets

VARIABLES
    pc,               \* position of the single thread of control
    readable,         \* input: does ET.parse(DATA_FILE) succeed
    drug,             \* parseFile: loop variable, the current drug element
    n,                \* number of drug elements fetched from root so far
    drugGenericName,  \* parseDrug local
    drugBrandNames,   \* parseDrug local (a Python set)
    j,                \* parseDrug: index of the next element of findall(product)
    drugMapping,      \* parseFile: value returned by parseDrug
    pending,          \* parseFile: brand names the row loop has not yielded yet
    out,              \* lines of drugMapping.csv, in order
    stdout,           \* diagnostics printed with print()
    exc,              \* exception that left main uncaught ("none" if none)
    exitStatus,       \* process exit status, meaningful when pc = "terminated"
    seen              \* history: expected condensed mapping of every record whose rows are all written

vars == <<pc, readable, drug, n, drugGenericName, drugBrandNames, j,
          drugMapping, pending, out, stdout, exc, exitStatus, seen>>

----------------------------------------------------------------------------
(* Bounds of the model *)
MaxDrugs == 2
MaxProducts == 2

(* Input texts: two that differ in case only, and one all upper case *)
Texts == { <<"B", "a">>, <<"b", "a">>, <<"A", "D">> }

----------------------------------------------------------------------------
(* Program constants *)
DATA_FILE == "rawData.xml"
FIELD_NAMES == << <<"b","r","a","n","d","_","n","a","m","e">>,
                  <<"g","e","n","e","r","i","c","_","n","a","m","e">> >>
GENERIC_ERR == "Error: could not retrieve generic name data of drug"
BRAND_ERR == "Error: could not retrieve brand name data of drug"
READ_ERR == "Error: could not read in data from file "

----------------------------------------------------------------------------
(* XML elements *)
NoElement == [present |-> FALSE, hasText |-> FALSE, text |-> <<>>]
NoText == [present |-> TRUE, hasText |-> FALSE, text |-> <<>>]
NameElements ==
    {NoElement, NoText} \cup {[present |-> TRUE, hasText |-> TRUE, text |-> t] : t \in Texts}

Products == [name : NameElements]

ProductLists == UNION {[1..k -> Products] : k \in 0..MaxProducts}

Drugs ==
    {[name |-> nm, hasProducts |-> TRUE, products |-> ps] :
        nm \in NameElements, ps \in ProductLists}
    \cup {[name |-> nm, hasProducts |-> FALSE, products |-> <<>>] : nm \in NameElements}

NoDrug == [name |-> NoElement, hasProducts |-> FALSE, products |-> <<>>]
NoMapping == [generic_name |-> <<>>, brand_names |-> {}]

----------------------------------------------------------------------------
(* str.lower() *)
UpperCase == <<"A","B","C","D","E","F","G","H","I","J","K","L","M",
               "N","O","P","Q","R","S","T","U","V","W","X","Y","Z">>
LowerCase == <<"a","b","c","d","e","f","g","h","i","j","k","l","m",
               "n","o","p","q","r","s","t","u","v","w","x","y","z">>

lowerChar(c) ==
    IF \E i \in 1..Len(UpperCase) : UpperCase[i] = c
    THEN LowerCase[CHOOSE i \in 1..Len(UpperCase) : UpperCase[i] = c]
    ELSE c

(* variant of lower: the text is stored as read *)
lowerIdentity(s) == s

lower(s) == [i \in 1..Len(s) |-> lowerChar(s[i])]

(* elem.text.lower(), where elem is the result of find(): None has no .text *)
(* and a None text has no .lower(); both raise AttributeError               *)
TextLower(elem) ==
    IF elem.present /\ elem.hasText
    THEN [ok |-> TRUE, val |-> lower(elem.text), err |-> "none"]
    ELSE [ok |-> FALSE, val |-> <<>>, err |-> "AttributeError"]

(* variant of FindAll: an absent container counts as an empty one *)
FindAllLenient(d) == [ok |-> TRUE, val |-> d.products, err |-> "none"]

(* products.findall(...): products is None when the container is absent *)
FindAll(d) ==
    IF d.hasProducts
    THEN [ok |-> TRUE, val |-> d.products, err |-> "none"]
    ELSE [ok |-> FALSE, val |-> <<>>, err |-> "AttributeError"]

(* does an except clause of the given kind handle exception e *)
Catches(handler, e) == handler = "bare" \/ handler = e

(* variant of MakeRow: the two fields exchanged *)
MakeRowSwapped(brandName, mapping) ==
    [brand_name |-> mapping.generic_name, generic_name |-> brandName]

(* parseFile: the row dictionary of one brand name *)
MakeRow(brandName, mapping) ==
    [brand_name |-> brandName, generic_name |-> mapping.generic_name]

Range(s) == {s[i] : i \in 1..Len(s)}

(* variant of writerow: a line already in the output is not written again *)
writerowOnce(o, row) ==
    IF <<row.brand_name, row.generic_name>> \in Range(o)
    THEN o
    ELSE Append(o, <<row.brand_name, row.generic_name>>)

(* csv.DictWriter.writerow: the fields of the row in FIELD_NAMES order *)
writerow(o, row) == Append(o, <<row.brand_name, row.generic_name>>)

----------------------------------------------------------------------------
(* The expected condensed mapping of a record, from the input alone *)
HasGeneric(d) == d.name.present /\ d.name.hasText
GoodProduct(p) == p.name.present /\ p.name.hasText
AllNamed(d) == \A i \in 1..Len(d.products) : GoodProduct(d.products[i])
Valid(d) == HasGeneric(d) /\ d.hasProducts /\ AllNamed(d)

IsUpper(c) == \E i \in 1..Len(UpperCase) : UpperCase[i] = c
(* s is the lower-case form of t *)
IsLowerOf(s, t) ==
    /\ Len(s) = Len(t)
    /\ \A i \in 1..Len(t) :
          IF IsUpper(t[i])
          THEN \E k \in 1..Len(UpperCase) : UpperCase[k] = t[i] /\ LowerCase[k] = s[i]
          ELSE s[i] = t[i]
NoUpper(s) == \A i \in 1..Len(s) : ~IsUpper(s[i])
LowerForm(t) ==
    [i \in 1..Len(t) |->
        IF IsUpper(t[i])
        THEN LowerCase[CHOOSE k \in 1..Len(UpperCase) : UpperCase[k] = t[i]]
        ELSE t[i]]

Condensed(d) ==
    [generic_name |-> LowerForm(d.name.text),
     brand_names |-> {LowerForm(d.products[i].name.text) : i \in 1..Len(d.products)}]

----------------------------------------------------------------------------
Init ==
    /\ pc = "main"
    /\ readable \in BOOLEAN
    /\ drug = NoDrug
    /\ n = 0
    /\ drugGenericName = <<>>
    /\ drugBrandNames = {}
    /\ j = 0
    /\ drugMapping = NoMapping
    /\ pending = {}
    /\ out = <<>>
    /\ stdout = <<>>
    /\ exc = "none"
    /\ exitStatus = 0
    /\ seen = <<>>

(* exit(): SystemExit with no code, the process ends with status 0 *)
Exit ==
    /\ pc' = "terminated"
    /\ exitStatus' = 0
    /\ exc' = exc

(* an exception no handler catches: traceback, the process ends with status 1 *)
Uncaught(e) ==
    /\ pc' = "terminated"
    /\ exitStatus' = 1
    /\ exc' = e

(* main: open the output with "w", write the header, call parseFile *)
Main ==
    /\ pc = "main"
    /\ out' = <<FIELD_NAMES>>
    /\ pc' = "parse"
    /\ UNCHANGED <<readable, drug, n, drugGenericName, drugBrandNames, j,
                   drugMapping, pending, stdout, exc, exitStatus, seen>>

(* parseFile: ET.parse succeeds *)
ParseOk ==
    /\ pc = "parse"
    /\ readable
    /\ pc' = "for"
    /\ UNCHANGED <<readable, drug, n, drugGenericName, drugBrandNames, j,
                   drugMapping, pending, out, stdout, exc, exitStatus, seen>>

(* variant of ParseFail: the message is printed and the run goes on *)
ParseFailContinue ==
    /\ pc = "parse"
    /\ ~readable
    /\ stdout' = Append(stdout, <<READ_ERR, DATA_FILE>>)
    /\ pc' = "for"
    /\ UNCHANGED <<readable, drug, n, drugGenericName, drugBrandNames, j,
                   drugMapping, pending, out, exc, exitStatus, seen>>

(* parseFile: ET.parse raises, the bare except prints and exits *)
ParseFail ==
    /\ pc = "parse"
    /\ ~readable
    /\ stdout' = Append(stdout, <<READ_ERR, DATA_FILE>>)
    /\ Exit
    /\ UNCHANGED <<readable, drug, n, drugGenericName, drugBrandNames, j,
                   drugMapping, pending, out, seen>>

(* for drug in root: the next child of the root *)
NextDrug ==
    /\ pc = "for"
    /\ n < MaxDrugs
    /\ \E d \in Drugs : drug' = d
    /\ n' = n + 1
    /\ pc' = "generic"
    /\ UNCHANGED <<readable, drugGenericName, drugBrandNames, j,
                   drugMapping, pending, out, stdout, exc, exitStatus, seen>>

(* for drug in root: root is exhausted, parseFile and main return *)
EndOfRoot ==
    /\ pc = "for"
    /\ pc' = "terminated"
    /\ exitStatus' = 0
    /\ UNCHANGED <<readable, drug, n, drugGenericName, drugBrandNames, j,
                   drugMapping, pending, out, stdout, exc, seen>>

(* variant of ParseGenericName: a missing name is taken as empty *)
ParseGenericNameLenient ==
    /\ pc = "generic"
    /\ LET r == TextLower(drug.name) IN
          /\ drugGenericName' = r.val
          /\ drugBrandNames' = {}
          /\ pc' = "products"
          /\ UNCHANGED <<stdout, exc, exitStatus>>
    /\ UNCHANGED <<readable, drug, n, j, drugMapping, pending, out, seen>>

(* parseDrug: the generic name under a bare except, then drugBrandNames = set() *)
ParseGenericName ==
    /\ pc = "generic"
    /\ LET r == TextLower(drug.name) IN
          IF r.ok
          THEN /\ drugGenericName' = r.val
               /\ drugBrandNames' = {}
               /\ pc' = "products"
               /\ UNCHANGED <<stdout, exc, exitStatus>>
          ELSE /\ Catches("bare", r.err)
               /\ stdout' = Append(stdout, <<GENERIC_ERR>>)
               /\ Exit
               /\ UNCHANGED <<drugGenericName, drugBrandNames>>
    /\ UNCHANGED <<readable, drug, n, j, drugMapping, pending, out, seen>>

(* the except KeyError clause around the products block *)
BrandHandler(e) ==
    IF Catches("KeyError", e)
    THEN /\ stdout' = Append(stdout, <<BRAND_ERR>>)
         /\ Exit
    ELSE /\ Uncaught(e)
         /\ stdout' = stdout

(* parseDrug: find the products container and call findall on it *)
FindProducts ==
    /\ pc = "products"
    /\ LET r == FindAll(drug) IN
          IF r.ok
          THEN /\ j' = 1
               /\ pc' = "product"
               /\ UNCHANGED <<stdout, exc, exitStatus>>
          ELSE /\ BrandHandler(r.err)
               /\ j' = j
    /\ UNCHANGED <<readable, drug, n, drugGenericName, drugBrandNames,
                   drugMapping, pending, out, seen>>

(* variant of ParseProduct: a product without a name is skipped *)
ParseProductSkip ==
    /\ pc = "product"
    /\ j <= Len(drug.products)
    /\ LET r == TextLower(drug.products[j].name) IN
          /\ drugBrandNames' = IF r.ok THEN drugBrandNames \cup {r.val} ELSE drugBrandNames
          /\ j' = j + 1
          /\ UNCHANGED <<pc, stdout, exc, exitStatus>>
    /\ UNCHANGED <<readable, drug, n, drugGenericName, drugMapping, pending, out, seen>>

(* variant of ParseProduct: the row is written as soon as the name is read *)
ParseProductEager ==
    /\ pc = "product"
    /\ j <= Len(drug.products)
    /\ LET r == TextLower(drug.products[j].name) IN
          IF r.ok
          THEN /\ drugBrandNames' = drugBrandNames \cup {r.val}
               /\ out' = IF r.val \in drugBrandNames THEN out
                         ELSE writerow(out, [brand_name |-> r.val,
                                             generic_name |-> drugGenericName])
               /\ j' = j + 1
               /\ UNCHANGED <<pc, stdout, exc, exitStatus>>
          ELSE /\ BrandHandler(r.err)
               /\ UNCHANGED <<drugBrandNames, j, out>>
    /\ UNCHANGED <<readable, drug, n, drugGenericName, drugMapping, pending, seen>>

(* parseDrug: one iteration of the loop over the product elements *)
ParseProduct ==
    /\ pc = "product"
    /\ j <= Len(drug.products)
    /\ LET r == TextLower(drug.products[j].name) IN
          IF r.ok
          THEN /\ drugBrandNames' = drugBrandNames \cup {r.val}
               /\ j' = j + 1
               /\ UNCHANGED <<pc, stdout, exc, exitStatus>>
          ELSE /\ BrandHandler(r.err)
               /\ UNCHANGED <<drugBrandNames, j>>
    /\ UNCHANGED <<readable, drug, n, drugGenericName, drugMapping, pending, out, seen>>

(* parseDrug: build the condensed representation and return it to parseFile; *)
(* the locals of parseDrug go out of scope                                    *)
ReturnMapping ==
    /\ pc = "product"
    /\ j > Len(drug.products)
    /\ drugMapping' = [generic_name |-> drugGenericName, brand_names |-> drugBrandNames]
    /\ pending' = drugBrandNames
    /\ drugGenericName' = <<>>
    /\ drugBrandNames' = {}
    /\ j' = 0
    /\ pc' = "rows"
    /\ UNCHANGED <<readable, drug, n, out, stdout, exc, exitStatus, seen>>

(* parseFile: one iteration of the row loop; a set yields its elements in any order *)
WriteRow ==
    /\ pc = "rows"
    /\ pending # {}
    /\ \E brandName \in pending :
          /\ out' = writerow(out, MakeRow(brandName, drugMapping))
          /\ pending' = pending \ {brandName}
    /\ UNCHANGED <<pc, readable, drug, n, drugGenericName, drugBrandNames, j,
                   drugMapping, stdout, exc, exitStatus, seen>>

(* parseFile: the row loop is exhausted, back to the loop over root *)
EndRows ==
    /\ pc = "rows"
    /\ pending = {}
    /\ pc' = "for"
    /\ seen' = Append(seen, IF Valid(drug) THEN Condensed(drug) ELSE NoMapping)
    /\ UNCHANGED <<readable, drug, n, drugGenericName, drugBrandNames, j,
                   drugMapping, pending, out, stdout, exc, exitStatus>>

Next ==
    \/ Main
    \/ ParseOk
    \/ ParseFail
    \/ NextDrug
    \/ EndOfRoot
    \/ ParseGenericName
    \/ FindProducts
    \/ ParseProduct
    \/ ReturnMapping
    \/ WriteRow
    \/ EndRows

Spec == Init /\ [][Next]_vars

----------------------------------------------------------------------------
(* Vocabulary of the properties *)
RECURSIVE SumCards(_)
SumCards(s) ==
    IF s = <<>> THEN 0
    ELSE Cardinality(s[Len(s)].brand_names) + SumCards(SubSeq(s, 1, Len(s) - 1))

(* lines of out that precede the rows of the record in progress *)
Mark == 1 + SumCards(seen)
(* drug is the n-th record and its rows are not all written *)
Current == n = Len(seen) + 1
(* the run ended on a failure in record n *)
HaltedOnRecord == pc = "terminated" /\ Current
(* the run consumed the whole document *)
Completed == pc = "terminated" /\ n = Len(seen) /\ readable
(* the lines written for the record in progress *)
Segment == SubSeq(out, Mark + 1, Len(out))
RowsOf(m) == {<<b, m.generic_name>> : b \in m.brand_names}
FirstBad(d) == CHOOSE i \in 1..Len(d.products) :
                  /\ ~GoodProduct(d.products[i])
                  /\ \A k \in 1..(i - 1) : GoodProduct(d.products[k])

----------------------------------------------------------------------------
(* C1: when the row loop of a record with a generic name and a products      *)
(* container whose products all carry a name is exhausted, exactly N lines   *)
(* were written for it, N the number of distinct product names after         *)
(* lowercasing; each pairs the record's generic name with one distinct brand *)
(* name, so products equal after lowercasing share one line.  While the loop *)
(* runs, the lines written and the names still to come add up to N.          *)
C1_FanOut ==
    (pc = "rows" /\ Current /\ Valid(drug)) =>
        LET want == Condensed(drug) IN
        /\ Len(Segment) + Cardinality(pending) = Cardinality(want.brand_names)
        /\ \A i \in 1..Len(Segment) :
              /\ Segment[i][2] = want.generic_name
              /\ Segment[i][1] \in want.brand_names
        /\ \A i, k \in 1..Len(Segment) : i # k => Segment[i][1] # Segment[k][1]
        /\ pending = {} => Range(Segment) = RowsOf(want)

(* two products whose names differ in case only gave one line *)
C1_Witness ==
    /\ pc = "rows" /\ pending = {} /\ Current /\ Valid(drug)
    /\ Len(drug.products) = 2
    /\ drug.products[1].name.text # drug.products[2].name.text
    /\ Len(Segment) = 1

----------------------------------------------------------------------------
(* C2 as stated: a record with a generic name and no products, the container *)
(* absent or empty, never halts the run.                                     *)
ZeroProducts ==
    /\ n >= 1 /\ HasGeneric(drug) /\ drug.products = <<>>
    /\ pc \notin {"generic", "products"}

C2_Original == ZeroProducts => ~HaltedOnRecord

(* C2 amended: such a record contributes no line in either shape; with the   *)
(* container present and empty the run goes on to the following records,     *)
(* with the container absent findall on None raises AttributeError, which no *)
(* handler catches, and the run ends there with status 1 and no diagnostic.  *)
C2_ZeroProducts ==
    ZeroProducts =>
        /\ Len(out) = Mark
        /\ stdout = <<>>
        /\ IF drug.hasProducts
           THEN exc = "none" /\ (pc = "terminated" => Completed)
           ELSE HaltedOnRecord /\ exc = "AttributeError" /\ exitStatus = 1

(* an empty container in record 1, the run went on, and record 2 without a  *)
(* container ended it                                                        *)
C2_Witness ==
    /\ n = 2 /\ Len(seen) = 1 /\ seen[1].brand_names = {}
    /\ ZeroProducts /\ ~drug.hasProducts /\ pc = "terminated"

----------------------------------------------------------------------------
(* C3 as stated: a product whose name is absent or has no text is skipped    *)
(* and the run does not halt.                                                *)
BadProduct ==
    /\ n >= 1 /\ HasGeneric(drug) /\ drug.hasProducts /\ ~AllNamed(drug)

C3_Original == BadProduct => ~HaltedOnRecord

(* C3 amended: the first such product ends the run: AttributeError reaches   *)
(* the top uncaught, status 1, no diagnostic, and no line is written for the *)
(* record; the lines of the earlier records stay.                            *)
C3_BadProductHalts ==
    (BadProduct /\ pc \notin {"generic", "products"}
        /\ ~(pc = "product" /\ j <= FirstBad(drug))) =>
        /\ HaltedOnRecord
        /\ j = FirstBad(drug)
        /\ exc = "AttributeError" /\ exitStatus = 1
        /\ stdout = <<>>
        /\ Len(out) = Mark

(* record 2 halted on its second product, after a good first one, with the  *)
(* lines of record 1 in the output                                           *)
C3_Witness ==
    /\ BadProduct /\ HaltedOnRecord
    /\ n = 2 /\ j = 2 /\ Len(out) > 1

----------------------------------------------------------------------------
(* C4: the step that examines a record without a generic name (element       *)
(* absent, or without text) prints the generic-name diagnostic and ends the  *)
(* run, writing no line and fetching no record, whatever its products are;   *)
(* and nothing happens after the run has ended.                              *)
C4_MissingGenericHalts ==
    [][ /\ (pc = "generic" /\ ~HasGeneric(drug)) =>
              /\ pc' = "terminated"
              /\ stdout' = Append(stdout, <<GENERIC_ERR>>)
              /\ out' = out /\ n' = n /\ seen' = seen /\ drugMapping' = drugMapping
        /\ pc = "terminated" => UNCHANGED vars ]_vars

(* record 2 has products but no generic name: halted with the lines of      *)
(* record 1 only                                                             *)
C4_Witness ==
    /\ HaltedOnRecord /\ n = 2 /\ ~HasGeneric(drug)
    /\ drug.hasProducts /\ Len(drug.products) > 0 /\ AllNamed(drug)
    /\ stdout = << <<GENERIC_ERR>> >>
    /\ Len(out) = Mark /\ Len(out) > 1

----------------------------------------------------------------------------
(* C5: a run that ends on a record whose products container is absent has    *)
(* printed the brand-name diagnostic and written no line for the record.     *)
C5_Original ==
    (HaltedOnRecord /\ HasGeneric(drug) /\ ~drug.hasProducts) =>
        /\ stdout = << <<BRAND_ERR>> >>
        /\ Len(out) = Mark

----------------------------------------------------------------------------
(* C6: a run ends with status 0 exactly when it consumed the whole document; *)
(* every fatal halt ends with a non-zero status.                             *)
C6_Original ==
    pc = "terminated" => (exitStatus = 0 <=> Completed)

----------------------------------------------------------------------------
(* C7: when the input cannot be parsed, once ET.parse has been attempted the *)
(* run has ended, has printed the diagnostic naming the input path, the      *)
(* output holds the header only and no record was fetched; before that the   *)
(* output holds at most the header.                                          *)
C7_UnreadableInput ==
    ~readable =>
        /\ Len(out) <= 1
        /\ n = 0 /\ seen = <<>> /\ drugMapping = NoMapping
        /\ pc \notin {"main", "parse"} =>
              /\ pc = "terminated"
              /\ stdout = << <<READ_ERR, DATA_FILE>> >>
              /\ out = <<FIELD_NAMES>>

C7_Witness == ~readable /\ pc = "terminated" /\ stdout # <<>>

----------------------------------------------------------------------------
(* C8: every generic name and brand name held by parseDrug, returned by it   *)
(* or written to a line has no upper-case character and is the lower-case    *)
(* form of the text of the input element it was read from.                   *)
IsBrandOf(s, d, upto) ==
    \E i \in 1..upto : GoodProduct(d.products[i]) /\ IsLowerOf(s, d.products[i].name.text)

C8_Lowercase ==
    /\ \A i \in 2..Len(out) : NoUpper(out[i][1]) /\ NoUpper(out[i][2])
    /\ pc \in {"products", "product"} =>
          /\ NoUpper(drugGenericName) /\ IsLowerOf(drugGenericName, drug.name.text)
          /\ \A b \in drugBrandNames : NoUpper(b)
    /\ pc = "product" => \A b \in drugBrandNames : IsBrandOf(b, drug, j - 1)
    /\ pc = "rows" =>
          /\ NoUpper(drugMapping.generic_name)
          /\ IsLowerOf(drugMapping.generic_name, drug.name.text)
          /\ \A b \in drugMapping.brand_names :
                NoUpper(b) /\ IsBrandOf(b, drug, Len(drug.products))
          /\ \A i \in 1..Len(Segment) :
                /\ IsLowerOf(Segment[i][2], drug.name.text)
                /\ IsBrandOf(Segment[i][1], drug, Len(drug.products))

(* a line was written from a generic name and a brand name that both hold   *)
(* upper-case characters                                                     *)
C8_Witness ==
    /\ pc = "rows" /\ Len(Segment) = 1 /\ Len(drug.products) = 1
    /\ ~NoUpper(drug.name.text)
    /\ ~NoUpper(drug.products[1].name.text)

----------------------------------------------------------------------------
(* C9: records are taken one at a time in document order; the output is      *)
(* always the header, then for each finished record, in order, its complete  *)
(* set of lines, then lines of the record in progress only; and while a      *)
(* record is being extracted, or when the run has halted on it, the output   *)
(* holds no line of it.                                                      *)
SegmentOf(i) ==
    LET start == 1 + SumCards(SubSeq(seen, 1, i - 1)) IN
    SubSeq(out, start + 1, start + Cardinality(seen[i].brand_names))

C9_OrderedOutput ==
    /\ n \in {Len(seen), Len(seen) + 1}
    /\ pc # "main" =>
          /\ Len(out) >= Mark
          /\ out[1] = FIELD_NAMES
          /\ \A i \in 1..Len(seen) : Range(SegmentOf(i)) = RowsOf(seen[i])
    /\ pc \in {"parse", "for", "generic", "products", "product", "terminated"} =>
          Len(out) = Mark
    /\ pc = "rows" => Valid(drug) /\ Range(Segment) \subseteq RowsOf(Condensed(drug))
    /\ pc \in {"generic", "products", "product", "rows"} => Current

(* record 2 failed on its second product after its first had been read; the *)
(* output holds the lines of record 1 only                                   *)
C9_Witness ==
    /\ HaltedOnRecord /\ exc = "AttributeError"
    /\ n = 2 /\ j = 2 /\ drugBrandNames # {}
    /\ Len(out) = Mark /\ Len(out) > 1

----------------------------------------------------------------------------
(* C10: a run over a document of valid records fetched n records, finished   *)
(* each of them once, and wrote as many data lines as the records' numbers   *)
(* of distinct lowercased brand names add up to; nothing is deduplicated     *)
(* across records.                                                           *)
C10_PerRecordDedup ==
    Completed =>
        /\ Len(seen) = n
        /\ Len(out) - 1 = SumCards(seen)
        /\ stdout = <<>> /\ exc = "none"

(* the same (brand, generic) pair in two records is written twice *)
C10_Witness ==
    /\ Completed /\ n = 2 /\ Len(out) = 3
    /\ out[2] = out[3]

====
